---- MODULE Spec2Model ----
(***************************************************************************)
(* State-machine model of the sticky-note simulator                        *)
(* (src/src/components/Scene.tsx and the second, current StickyNote        *)
(* component of src/src/components/StickyNote.tsx, lines 339-1229).        *)
(*                                                                         *)
(* Numbers.  Every real of the source is kept as a fixed-point integer     *)
(* with six decimals (1.0 is 1000000): positions, velocities, masses,      *)
(* angles.  Times are milliseconds.  A vector is a tuple <<x, y, z>>.      *)
(*                                                                         *)
(* React.  A handler runs against the values of the last render; the       *)
(* state updates it queues, the re-render and the effects whose            *)
(* dependencies changed are part of the same action (Rerender).  A timer   *)
(* callback keeps the values of the render that scheduled it.              *)
(*                                                                         *)
(* Solver.  The rigid-body solver is an external collaborator: a solver    *)
(* frame reports a position of a small set (where the core last put the    *)
(* body, or lying on the ground plane), and the setters of the body api    *)
(* overwrite the body's fields.  The velocity kept per body is the one the *)
(* core last commanded.  The mesh's world position, which the handlers     *)
(* read with getWorldPosition, is the body's position: the solver copies   *)
(* one to the other every frame, faster than any gesture.                  *)
(***************************************************************************)
EXTENDS Integers, Sequences, FiniteSets, TLC

VARIABLES
    now,          \* the clock: Date.now() and performance.now(), in ms
    notes,        \* Scene: the notes list (props of each StickyNote)
    cursorNote,   \* Scene: the pending object, or NoCursor
    mousePos,     \* Scene: the tracked pointer-projected position
    justCreated,  \* Scene: justCreatedRef.current
    guardTimers,  \* Scene: deadlines of the pending 100 ms guard timers
    sceneDragging,\* Scene: isDragging, passed down as isGlobalDragging
    hotZone,      \* the corner area the pointer hovers: <<note, side>> or NoZone
    sn,           \* per note: the StickyNote component and its solver body
    bubble,       \* a DOM pointer event between its canvas and window phase
    session,      \* history: the grab that opened the current drag
    grabs,        \* history: number of accepted grabs so far
    pointer       \* the canvas rectangle and mouse.current, the normalized
                  \* pointer position of the handler that mapped an event last

vars == <<now, notes, cursorNote, mousePos, justCreated, guardTimers,
          sceneDragging, hotZone, sn, bubble, session, grabs, pointer>>

(***************************************************************************)
(* Bounds of the model.                                                    *)
(***************************************************************************)
PadCount == 1        \* pad notes of the initial scene (the source mounts 5)
MaxDropped == 1      \* committed notes in the drag scenarios
MaxGrabs == 1        \* accepted grabs in the drag scenarios (each lifts by 0.2)
MaxClock == 2        \* clock steps in the drag scenarios
FallDropped == 2     \* committed notes in the free-fall scenarios
FallClock == 3       \* clock steps in the free-fall scenarios
GestureGrabs == 2    \* accepted grabs in the gesture scenarios
GestureClock == 2    \* clock steps in the gesture scenarios
MaxPending == 2      \* pending timers that a note may have

(***************************************************************************)
(* Program constants (fixed point, six decimals; times in ms).             *)
(***************************************************************************)
PAD_THICKNESS == 100000
NOTE_THICKNESS == 2000
FLOOR_LEVEL == -2000000
HALF_HEIGHT == 10000
FLOOR_OFFSET == 10000
STACK_SEPARATION == 30000
INITIAL_HEIGHT_BOOST == 200000
MAX_STACK_DETECTION_DISTANCE == 100000
FALL_DETECTION_DELTA == 100000
OFFSET_MODULUS == 1000
GUARD_DELAY == 100
GRACE_PERIOD == 1000
FLOOR_HIT_WINDOW == 100
MAX_FLOOR_HITS == 2
BOUNCE_THRESHOLD == 100000
BOUNCE_DIVISOR == 5
MAX_BOUNCE_IMPULSE == 50000
VALID_JUMP == 2000000
DRAG_LIFT == 200000
HALF_PI == 1570796
TILT_LIMIT == 150000
PAD_MASS == 1000000
DROPPED_MASS == 100000
SETTLE_MASS == 500000
SETTLED_MASS == 200000
STABILIZE_MASS == 800000
RELEASE_MASS == 1000000
DROP_MASS == 100000
INITIAL_UP_VELOCITY == 500000
DROP_UP_VELOCITY == 300000
PAD_BASE_Y == 2000000
PAD_STEP_Y == 500000
COLOR_COUNT == 5
ONE == 1000000

(***************************************************************************)
(* Granularity of the model's inputs.                                      *)
(***************************************************************************)
\* the clock steps of the scenarios: past the grace period, half a period of
\* the depth offset, and a guard delay
LongStep == GRACE_PERIOD + GUARD_DELAY
HalfPeriod == OFFSET_MODULUS \div 2

NoCursor == [id |-> -1]
NoZone == <<>>
NoHit == <<>>
NoBubble == [kind |-> "none"]
NoSession == [note |-> 0]
NoCommand == <<>>
Zero3 == <<0, 0, 0>>
Canonical == <<HALF_PI, 0, 0>>

\* the numbers that are not finite: NaN, Infinity and -Infinity.  The two
\* infinities lie beyond every number of the model, so that the integer order
\* compares them as the code does; every comparison with NaN is false (lt, gt)
NaN == -2100000000
Infinity == 2000000000
NaN3 == <<NaN, NaN, NaN>>
isFinite(x) == x \notin {NaN, Infinity, -Infinity}
isFinite3(v) == isFinite(v[1]) /\ isFinite(v[2]) /\ isFinite(v[3])
\* a < b and a > b of the code
lt(a, b) == a # NaN /\ b # NaN /\ a < b
gt(a, b) == a # NaN /\ b # NaN /\ a > b

\* a + b and a - b of the code: NaN when an operand is NaN or when two
\* infinities cancel, an infinity when one operand is one
plus(a, b) ==
    IF a = NaN \/ b = NaN THEN NaN
    ELSE IF ~isFinite(a) THEN IF ~isFinite(b) /\ b # a THEN NaN ELSE a
    ELSE IF ~isFinite(b) THEN b
    ELSE a + b
minus(a, b) == IF b = NaN THEN NaN ELSE plus(a, -b)

\* Math.max, Math.min and Math.abs: NaN when an argument is NaN
Max(a, b) == IF a = NaN \/ b = NaN THEN NaN ELSE IF a >= b THEN a ELSE b
Min(a, b) == IF a = NaN \/ b = NaN THEN NaN ELSE IF a <= b THEN a ELSE b
Abs(a) == IF a = NaN THEN NaN ELSE IF a >= 0 THEN a ELSE -a
Add3(a, b) == <<plus(a[1], b[1]), plus(a[2], b[2]), plus(a[3], b[3])>>
Sub3(a, b) == <<minus(a[1], b[1]), minus(a[2], b[2]), minus(a[3], b[3])>>

\* floorY of the two stabilizer effects: FLOOR_LEVEL + HALF_HEIGHT + FLOOR_OFFSET
floorY == FLOOR_LEVEL + HALF_HEIGHT + FLOOR_OFFSET

\* variant of the spawn elevation without the note thickness
heightOffsetPadOnly == PAD_THICKNESS \div 2

\* heightOffset of Scene.handleCornerClick
heightOffset == PAD_THICKNESS \div 2 + NOTE_THICKNESS

(***************************************************************************)
(* Inputs: what the solver, the pointer and Math.random() may deliver.     *)
(***************************************************************************)
\* heights a solver step may report besides the height the core commanded:
\* the note lying on the ground plane, half its thickness above the floor
SolverY == {FLOOR_LEVEL + NOTE_THICKNESS \div 2}
SolverPos == {<<0, y, 0>> : y \in SolverY}
\* the pointer ray meets the drag plane at grab time at the note's position
\* plus one of these, or not at all
GrabDeltas == {<<100000, 0, 0>>}
\* the pointer ray meets the drag plane during a move at one of these points
\* (the first maps below the floor), or not at all
MoveHits == {<<0, -3 * ONE, 0>>}
\* camera orientations (the plane normal is the camera's forward direction)
Cameras == {1}
\* (x, z) where the pointer ray meets the horizontal plane of a pending note
CursorHits == {<<ONE, ONE>>}
\* pairs drawn from Math.random(): (randomX, randomZ) of handleDrop, within
\* (-0.0025, 0.0025), and of the initial-velocity timer, within (-0.005, 0.005)
DropRandoms == {<<2000, -1000>>}
VelRandoms == {<<4000, -3000>>}

\* rotations a solver frame may report: at rest, tilted about x beyond the
\* limit of the rotation subscription, tilted about x and turned about the
\* second axis, or not finite
TiltedX == HALF_PI + 2 * TILT_LIMIT
Turned == 2 * TILT_LIMIT
RotReports == {Canonical, <<TiltedX, 0, 0>>, <<TiltedX, Turned, 0>>, NaN3}

\* canvas rectangles (getBoundingClientRect, in pixels): the canvas of the
\* first render, and the rectangles a layout change may give it, some of
\* zero width or height
FullRect == [left |-> 0, top |-> 0, width |-> 4, height |-> 4]
Rects == [left : {0, 2}, top : {0}, width : {0, 2, 4}, height : {0, 2, 4}]
\* pointer events: the (x, y) a handler passes to the pointer mapping
PointerEvents == (0..4) \X (0..4)
\* the pointer events of the drag scenarios, at the centre of the canvas (the
\* camera is not modelled: where the pointer ray meets the drag plane is an
\* input of its own)
DragEvents == {<<2, 2>>}

\* positions that are not finite
NonFinite == {NaN3, <<0, Infinity, 0>>, <<0, -Infinity, 0>>}

\* velocities of a falling body when a solver frame reports it
FallVelocities == {<<0, -ONE, 0>>}

NoteIds == 1..Len(notes)

\* positions a solver frame may report for note n in the drag scenarios: a
\* committed note is where the core last put it or has fallen to the ground;
\* a pad note rests where it is
DragReports(n) ==
    IF notes[n].isDropped THEN SolverPos \cup {sn[n].pos} ELSE {sn[n].pos}

(***************************************************************************)
(* StickyNote: the component's state after its first render and its mount  *)
(* effects, with the solver body useBox creates.                           *)
(***************************************************************************)
\* x || 0 of the code: 0 when x is NaN (or 0), x otherwise
orZero(x) == IF x = NaN THEN 0 ELSE x

\* initialPosition of useBox: a dropped note starts at least
\* INITIAL_HEIGHT_BOOST above the floor bound
initialPosition(position, isDropped) ==
    IF isDropped
    THEN <<orZero(position[1]),
           Max(orZero(position[2]),
               FLOOR_LEVEL + HALF_HEIGHT + FLOOR_OFFSET + INITIAL_HEIGHT_BOOST),
           orZero(position[3])>>
    ELSE position

Mount(note, t) ==
    [ \* React state and refs
      isDragging |-> FALSE,
      hasSettled |-> FALSE,
      \* the hasSettled of the last render, which the closures of the
      \* interval and of the subscriptions hold
      seenSettled |-> FALSE,
      settleTime |-> 0,
      creationTime |-> t,
      highestYPosition |-> note.position[2],
      dragOffset |-> Zero3,
      plane |-> [normal |-> 0, point |-> Zero3],
      lastValidPosition |-> note.position,
      lastValidRotation |-> Zero3,
      \* locals of the subscription effect
      lastY |-> note.position[2],
      consecutiveFloorHits |-> 0,
      lastFloorHitTime |-> 0,
      \* numbers of pending timers (none is ever cleared)
      velocityTimer |-> IF note.isDropped THEN 1 ELSE 0,
      settleTimer |-> 0,
      stabilizeTimer |-> 0,
      \* the solver body
      mass |-> IF note.isDropped THEN DROPPED_MASS ELSE PAD_MASS,
      pos |-> initialPosition(note.position, note.isDropped),
      vel |-> Zero3,
      angVel |-> Zero3,
      rot |-> Canonical,
      \* a position the core has commanded that the solver has not applied yet
      command |-> NoCommand ]

\* The re-render after a handler.  The interval effect and the subscription
\* effect depend on isDragging and hasSettled: when either differs from the
\* last render, the subscription effect runs again, which resets its locals
\* and, for a dropped note, schedules one more initial-velocity timer.
Rerender(note, old, new) ==
    IF old.isDragging # new.isDragging \/ old.seenSettled # new.hasSettled
    THEN [new EXCEPT !.seenSettled = new.hasSettled,
                     !.lastY = note.position[2],
                     !.consecutiveFloorHits = 0,
                     !.lastFloorHitTime = 0,
                     !.velocityTimer = IF note.isDropped THEN @ + 1 ELSE @]
    ELSE new

\* note state s has no more timers pending than the scenarios explore
Capped(s) ==
    s.velocityTimer + s.settleTimer + s.stabilizeTimer <= MaxPending

\* api.applyImpulse at the body's centre: the velocity gains impulse / mass;
\* a body of mass 0 has inverse mass 0 and gains nothing (the quotient is
\* taken on thousandths to stay within 32-bit integers)
applyImpulse(s, jy) ==
    IF s.mass = 0 THEN s
    ELSE [s EXCEPT !.vel = <<@[1], @[2] + (jy * 1000) \div (s.mass \div 1000), @[3]>>]

(***************************************************************************)
(* StickyNote: the drag handlers.                                          *)
(***************************************************************************)
\* variant of resetPhysicsState that commands the grabbed position unlifted
resetPhysicsStateInPlace(s, worldPosition) ==
    applyImpulse(
        [s EXCEPT !.hasSettled = FALSE,
                  !.settleTime = 0,
                  !.mass = 0,
                  !.vel = Zero3,
                  !.angVel = Zero3,
                  !.rot = Canonical,
                  !.pos = worldPosition],
        100000)

\* resetPhysicsState, called with currentPosition.current = worldPosition
resetPhysicsState(s, worldPosition) ==
    applyImpulse(
        [s EXCEPT !.hasSettled = FALSE,
                  !.settleTime = 0,
                  !.mass = 0,
                  !.vel = Zero3,
                  !.angVel = Zero3,
                  !.rot = Canonical,
                  !.pos = <<worldPosition[1], plus(worldPosition[2], DRAG_LIFT), worldPosition[3]>>],
        100000)

\* setupDragPlane: the plane through worldPosition whose normal is the
\* camera's forward direction
setupDragPlane(s, cam, worldPosition) ==
    [s EXCEPT !.plane = [normal |-> cam, point |-> worldPosition]]

\* the intersection of the pointer ray with the drag plane at grab time
grabOffset(s, worldPosition, hit) ==
    IF hit # NoHit
    THEN [s EXCEPT !.dragOffset = Sub3(worldPosition, hit)]
    ELSE s

\* variant of the guard that does not consult isGlobalDragging
padGrabIgnoringGlobal(s, isGlobalDragging, cornerHovered) ==
    ~(s.isDragging \/ cornerHovered)

\* variant of the guard that does not consult the corner-hover flags
padGrabIgnoringCorner(s, isGlobalDragging, cornerHovered) ==
    ~(s.isDragging \/ isGlobalDragging)

\* the guard of handlePointerDown (pad notes)
padGrabAccepted(s, isGlobalDragging, cornerHovered) ==
    ~(s.isDragging \/ isGlobalDragging \/ cornerHovered)

\* handlePointerDown past its guard
handlePointerDown(s, cam, hit) ==
    LET worldPosition == s.pos
        s1 == [s EXCEPT !.isDragging = TRUE]
        s2 == resetPhysicsState(s1, worldPosition)
        s3 == setupDragPlane(s2, cam, worldPosition)
    IN  grabOffset(s3, worldPosition, hit)

\* variant of the guard that does not consult isGlobalDragging
droppedGrabIgnoringGlobal(s, isGlobalDragging) ==
    ~s.isDragging

\* the guard of the mesh's onPointerDown for a dropped note
droppedGrabAccepted(s, isGlobalDragging) ==
    ~s.isDragging /\ ~isGlobalDragging

\* the mesh's onPointerDown for a dropped note, past its guard
meshPointerDown(s, cam, hit) ==
    LET worldPosition == s.pos
        s1 == [s EXCEPT !.isDragging = TRUE, !.lastValidPosition = worldPosition]
        s2 == resetPhysicsState(s1, worldPosition)
        s3 == setupDragPlane(s2, cam, worldPosition)
    IN  grabOffset(s3, worldPosition, hit)

\* variant of handlePointerMove that moves the drag plane along with the note
handlePointerMoveRebasing(s, hit) ==
    IF hit = NoHit THEN s
    ELSE LET p == Add3(hit, s.dragOffset)
         IN  [s EXCEPT !.pos = <<p[1], Max(FLOOR_LEVEL + HALF_HEIGHT + FLOOR_OFFSET, p[2]), p[3]>>,
                       !.plane.point = <<p[1], Max(FLOOR_LEVEL + HALF_HEIGHT + FLOOR_OFFSET, p[2]), p[3]>>]

\* handlePointerMove past its isDragging guard: the window-level move handler
handlePointerMove(s, hit) ==
    IF hit = NoHit THEN s
    ELSE LET p == Add3(hit, s.dragOffset)
         IN  [s EXCEPT !.pos = <<p[1], Max(FLOOR_LEVEL + HALF_HEIGHT + FLOOR_OFFSET, p[2]), p[3]>>]

\* the mesh's own onPointerMove
meshPointerMove(s, hit) ==
    IF s.isDragging /\ hit # NoHit
    THEN [s EXCEPT !.pos = Add3(hit, s.dragOffset)]
    ELSE s

\* variant of handlePointerUp that sets the mass of the settle transition
handlePointerUpSettleMass(s) ==
    [s EXCEPT !.isDragging = FALSE, !.mass = SETTLE_MASS]

\* variant of handlePointerUp that leaves the mass as the drag left it
handlePointerUpKeepingMass(s) ==
    [s EXCEPT !.isDragging = FALSE]

\* variant of handlePointerUp that restores the mass and leaves the note
\* Dragging
handlePointerUpHolding(s) ==
    [s EXCEPT !.mass = RELEASE_MASS]

\* handlePointerUp past its isDragging guard
handlePointerUp(s) ==
    [s EXCEPT !.isDragging = FALSE, !.mass = RELEASE_MASS]

\* variant of handleDrop that leaves the mass as the drag left it
handleDropKeepingMass(s, r) ==
    LET currentPos == s.pos
        finalY == Max(currentPos[2], FLOOR_LEVEL + HALF_HEIGHT + FLOOR_OFFSET + STACK_SEPARATION)
    IN  [s EXCEPT !.isDragging = FALSE,
                  !.hasSettled = FALSE,
                  !.settleTime = 0,
                  !.lastValidPosition = currentPos,
                  !.pos = <<plus(currentPos[1], r[1]), finalY, plus(currentPos[3], r[2])>>,
                  !.vel = <<r[1] * 2, DROP_UP_VELOCITY, r[2] * 2>>,
                  !.angVel = Zero3,
                  !.rot = Canonical]

\* handleDrop past its isDragging guard; r is (randomX, randomZ)
handleDrop(s, r) ==
    LET currentPos == s.pos
        finalY == Max(currentPos[2], FLOOR_LEVEL + HALF_HEIGHT + FLOOR_OFFSET + STACK_SEPARATION)
    IN  [s EXCEPT !.isDragging = FALSE,
                  !.hasSettled = FALSE,
                  !.settleTime = 0,
                  !.lastValidPosition = currentPos,
                  !.pos = <<plus(currentPos[1], r[1]), finalY, plus(currentPos[3], r[2])>>,
                  !.vel = <<r[1] * 2, DROP_UP_VELOCITY, r[2] * 2>>,
                  !.angVel = Zero3,
                  !.rot = Canonical,
                  !.mass = DROP_MASS]

\* variant of the mesh's onPointerUp that drops a committed note whether or
\* not it is being dragged
meshPointerUpUnguarded(s, isDropped, r) ==
    IF isDropped
    THEN handleDrop(s, r)
    ELSE IF s.isDragging THEN handlePointerUp(s) ELSE s

\* the mesh's onPointerUp
meshPointerUp(s, isDropped, r) ==
    IF isDropped
    THEN IF s.isDragging THEN handleDrop(s, r) ELSE s
    ELSE IF s.isDragging THEN handlePointerUp(s) ELSE s

(***************************************************************************)
(* StickyNote: the settlement stabilizer.                                  *)
(***************************************************************************)
\* currentVelocity of the interval callback: api.velocity.subscribe(cb)()
\* subscribes and unsubscribes at once; the callback is only ever called
\* from a later solver frame, so the value read is the initial [0, 0, 0]
currentVelocity(s) == Zero3

isNearlyStationary(v) ==
    lt(Abs(v[1]), 10000) /\ lt(Abs(v[2]), 10000) /\ lt(Abs(v[3]), 10000)

\* offset of the settle transition: creationTime % 1000 / 1000 * 0.001
depthOffset(creationTime) == creationTime % OFFSET_MODULUS

\* the settle condition of the interval callback
settleCondition(s, worldPos, highest) ==
    /\ lt(worldPos[2], floorY + MAX_STACK_DETECTION_DISTANCE)
    /\ gt(Abs(minus(highest, worldPos[2])), FALL_DETECTION_DELTA)
    /\ isNearlyStationary(currentVelocity(s))

\* the settle transition of the interval callback
settle(s, worldPos, t) ==
    [s EXCEPT !.hasSettled = TRUE,
              !.settleTime = t,
              !.pos = <<worldPos[1],
                        floorY + STACK_SEPARATION + depthOffset(s.creationTime),
                        worldPos[3]>>,
              !.vel = Zero3,
              !.angVel = Zero3,
              !.rot = Canonical,
              !.mass = SETTLE_MASS,
              !.settleTimer = @ + 1]

\* the regular floor correction of the interval callback; hasSettled is the
\* value of the render the interval was created in
floorCorrection(s, worldPos, hasSettled) ==
    IF lt(worldPos[2], floorY) /\ ~hasSettled
    THEN [s EXCEPT !.pos = <<worldPos[1], floorY + STACK_SEPARATION, worldPos[3]>>,
                   !.vel = Zero3]
    ELSE s

\* one run of the setInterval callback of a dropped note; isDragging and
\* hasSettled are those of the render the interval was created in
floorCheck(s, t) ==
    LET worldPos == s.pos
        highest == IF gt(worldPos[2], s.highestYPosition)
                   THEN worldPos[2] ELSE s.highestYPosition
        s1 == [s EXCEPT !.highestYPosition = highest]
        s2 == IF ~s.isDragging /\ settleCondition(s, worldPos, highest) /\ ~s.seenSettled
              THEN settle(s1, worldPos, t)
              ELSE s1
    IN  floorCorrection(s2, worldPos, s.seenSettled)

\* the floor-contact branch of the position subscription (dropped, not dragging)
floorContact(s, p, t) ==
    LET dt == Max(1, t - s.lastFloorHitTime)
        dy == Abs(p[2] - s.lastY)
        hits == IF t - s.lastFloorHitTime < FLOOR_HIT_WINDOW
                THEN s.consecutiveFloorHits + 1
                ELSE Max(1, s.consecutiveFloorHits - 1)
        s1 == [s EXCEPT !.consecutiveFloorHits = hits,
                        !.lastFloorHitTime = t,
                        !.vel = Zero3,
                        !.angVel = Zero3]
        s2 == IF dy > BOUNCE_THRESHOLD * dt
              THEN applyImpulse(s1, Min(dy \div (dt * BOUNCE_DIVISOR), MAX_BOUNCE_IMPULSE))
              ELSE s1
    IN  IF hits > MAX_FLOOR_HITS
        THEN [s2 EXCEPT !.mass = STABILIZE_MASS,
                        !.pos = <<p[1], floorY + STACK_SEPARATION, p[3]>>,
                        !.rot = Canonical,
                        !.stabilizeTimer = @ + 1,
                        !.consecutiveFloorHits = 0]
        ELSE s2

\* the callback of api.position.subscribe, called with the position p the
\* solver reports; isDragging and hasSettled are those of the render the
\* subscription was made in
positionCallback(s, p, t, isDropped) ==
    IF s.seenSettled /\ t - s.settleTime > GRACE_PERIOD /\ ~s.isDragging
    THEN s
    ELSE IF ~isFinite3(p)
    THEN [s EXCEPT !.pos = s.lastValidPosition]
    ELSE LET s1 == [s EXCEPT !.highestYPosition = IF gt(p[2], @) THEN p[2] ELSE @]
         IN  IF p[2] < floorY /\ ~s.seenSettled
             THEN LET s2 == [s1 EXCEPT !.pos = <<p[1], floorY + STACK_SEPARATION, p[3]>>]
                  IN  IF isDropped /\ ~s.isDragging
                      THEN floorContact(s2, p, t)
                      ELSE s2
             ELSE [s1 EXCEPT !.lastY = p[2],
                             !.lastValidPosition =
                                 IF p[2] >= floorY /\ lt(Abs(minus(p[2], @[2])), VALID_JUMP)
                                 THEN p ELSE @]

\* the callback of api.rotation.subscribe, called with the rotation r the
\* solver reports
rotationCallback(s, r) ==
    IF isFinite3(r)
    THEN LET s1 == [s EXCEPT !.lastValidRotation = r]
         IN  IF Abs(r[1] - HALF_PI) > TILT_LIMIT
             THEN [s1 EXCEPT !.rot = <<HALF_PI, r[2], r[3]>>, !.angVel = Zero3]
             ELSE s1
    ELSE s

\* the timer of the subscription effect (0 ms): r is (randomX, randomZ)
velocityTimerFire(s, r) ==
    [s EXCEPT !.vel = <<r[1], INITIAL_UP_VELOCITY, r[2]>>, !.velocityTimer = @ - 1]

\* the timer of the settle transition (500 ms); the isDragging it tests is
\* the one of the interval's render, which was false
settleTimerFire(s) ==
    [s EXCEPT !.mass = SETTLED_MASS, !.settleTimer = @ - 1]

\* the timer of the floor-contact branch (200 ms); isDragging and hasSettled
\* are those of the subscription's render, which were both false
stabilizeTimerFire(s, t) ==
    [s EXCEPT !.mass = SETTLED_MASS,
              !.hasSettled = TRUE,
              !.settleTime = t,
              !.stabilizeTimer = @ - 1]

\* a / b of two numbers, the result in fixed point; for b = 0 it is NaN or
\* an infinity with the sign of a
quotient(a, b) ==
    IF b # 0 THEN (a * ONE) \div b
    ELSE IF a = 0 THEN NaN
    ELSE IF a > 0 THEN Infinity ELSE -Infinity

\* a * k + c where a may be not finite and k is not 0
scaled(a, k, c) ==
    IF isFinite(a) THEN a * k + c
    ELSE IF a = NaN THEN NaN
    ELSE IF k > 0 THEN a ELSE -a

\* getNormalizedPointerPosition, and the same expressions in
\* CursorNote.handleMouseMove
getNormalizedPointerPosition(e, rect) ==
    <<scaled(quotient(e[1] - rect.left, rect.width), 2, -ONE),
      scaled(quotient(e[2] - rect.top, rect.height), -2, ONE)>>

(***************************************************************************)
(* Scene.                                                                  *)
(***************************************************************************)
\* Date.now() when the scene is mounted, in ms: the clock `now` counts from
\* that moment
MountEpoch == 1000000

\* clock of Date.now() that only counts whole seconds
DateNowSeconds(t) == MountEpoch + (t \div 1000) * 1000

\* Date.now() at the moment t of the clock
DateNow(t) == MountEpoch + t

InitialNotes ==
    [i \in 1..PadCount |->
        [id |-> i - 1,
         position |-> <<0, PAD_BASE_Y + (i - 1) * PAD_STEP_Y, 0>>,
         color |-> (i - 1) % COLOR_COUNT,
         isDropped |-> FALSE]]

Scene == [notes |-> notes, cursorNote |-> cursorNote, mousePos |-> mousePos,
          justCreated |-> justCreated, guardTimers |-> guardTimers]

\* variant of the enabled prop of OrbitControls that does not consult the
\* pending note
orbitEnabledIgnoringPending(isDragging, cursor, isHovering) ==
    ~isDragging /\ ~isHovering

\* the enabled prop of OrbitControls in Scene's render
orbitEnabled(isDragging, cursor, isHovering) ==
    ~isDragging /\ cursor = NoCursor /\ ~isHovering

\* Scene.handleCornerClick
sceneCornerClick(sc, position, color, t) ==
    IF sc.cursorNote = NoCursor
    THEN LET elevatedPosition == <<position[1], position[2] + heightOffset, position[3]>>
         IN  [sc EXCEPT !.justCreated = TRUE,
                        !.cursorNote = [id |-> DateNow(t),
                                        position |-> elevatedPosition,
                                        color |-> color,
                                        sourcePosition |-> elevatedPosition],
                        !.mousePos = elevatedPosition,
                        !.guardTimers = @ \cup {t + GUARD_DELAY}]
    ELSE sc

\* variant of Scene.handleCanvasClick that resets the tracked pointer position
\* when there is nothing to commit
handleCanvasClickResettingPointer(sc) ==
    IF sc.justCreated THEN sc
    ELSE IF sc.cursorNote # NoCursor
         THEN [sc EXCEPT !.notes = Append(@, [id |-> sc.cursorNote.id,
                                              position |-> sc.mousePos,
                                              color |-> sc.cursorNote.color,
                                              isDropped |-> TRUE]),
                         !.cursorNote = NoCursor]
         ELSE [sc EXCEPT !.mousePos = Zero3]

\* variant of Scene.handleCanvasClick that drops the note where it was spawned
handleCanvasClickAtSource(sc) ==
    IF sc.justCreated THEN sc
    ELSE IF sc.cursorNote # NoCursor
         THEN [sc EXCEPT !.notes = Append(@, [id |-> sc.cursorNote.id,
                                              position |-> sc.cursorNote.sourcePosition,
                                              color |-> sc.cursorNote.color,
                                              isDropped |-> TRUE]),
                         !.cursorNote = NoCursor]
         ELSE sc

\* variant of Scene.handleCanvasClick without the just-created guard
handleCanvasClickUnguarded(sc) ==
    IF sc.cursorNote # NoCursor
    THEN [sc EXCEPT !.notes = Append(@, [id |-> sc.cursorNote.id,
                                         position |-> sc.mousePos,
                                         color |-> sc.cursorNote.color,
                                         isDropped |-> TRUE]),
                    !.cursorNote = NoCursor]
    ELSE sc

\* Scene.handleCanvasClick
handleCanvasClick(sc) ==
    IF sc.justCreated THEN sc
    ELSE IF sc.cursorNote # NoCursor
         THEN [sc EXCEPT !.notes = Append(@, [id |-> sc.cursorNote.id,
                                              position |-> sc.mousePos,
                                              color |-> sc.cursorNote.color,
                                              isDropped |-> TRUE]),
                         !.cursorNote = NoCursor]
         ELSE sc

\* variant of CursorNote.handleMouseMove that tracks the pointer on the plane
\* y = 0
handleMouseMoveOnGround(sc, hit) ==
    IF sc.cursorNote = NoCursor \/ hit = NoHit THEN sc
    ELSE [sc EXCEPT !.mousePos = <<hit[1], 0, hit[2]>>]

\* CursorNote.handleMouseMove: hit is (x, z) on the horizontal plane, or NoHit
handleMouseMove(sc, hit) ==
    IF sc.cursorNote = NoCursor \/ hit = NoHit THEN sc
    ELSE [sc EXCEPT !.mousePos = <<hit[1], sc.cursorNote.sourcePosition[2], hit[2]>>]

\* the corner areas of a note are rendered
cornersRendered(n) ==
    /\ ~notes[n].isDropped
    /\ cursorNote = NoCursor
    /\ ~sceneDragging
    /\ ~sn[n].isDragging

isCornerHovered(n) == hotZone # NoZone /\ hotZone[1] = n

DroppedCount == Cardinality({i \in NoteIds : notes[i].isDropped})

\* the scene's state after a handler; a note added to the list is mounted
SetScene(sc) ==
    /\ sn' = IF Len(sc.notes) > Len(notes)
             THEN Append(sn, Mount(sc.notes[Len(sc.notes)], now))
             ELSE sn
    /\ notes' = sc.notes
    /\ cursorNote' = sc.cursorNote
    /\ mousePos' = sc.mousePos
    /\ justCreated' = sc.justCreated
    /\ guardTimers' = sc.guardTimers

(***************************************************************************)
(* Initial state: the scene after its first render.                        *)
(***************************************************************************)
Init ==
    /\ now = 0
    /\ notes = InitialNotes
    /\ cursorNote = NoCursor
    /\ mousePos = Zero3
    /\ justCreated = FALSE
    /\ guardTimers = {}
    /\ sceneDragging = FALSE
    /\ hotZone = NoZone
    /\ sn = [i \in 1..PadCount |-> Mount(InitialNotes[i], 0)]
    /\ bubble = NoBubble
    /\ session = NoSession
    /\ grabs = 0
    /\ pointer = [rect |-> FullRect, mouse |-> <<0, 0>>]

Idle == bubble = NoBubble

\* no state update is waiting for its render
Rendered == \A i \in NoteIds : sn[i].seenSettled = sn[i].hasSettled

\* The code never clears its timers and has no bound on how many are pending;
\* the scenarios explore the steps that leave every note with at most
\* MaxPending of them.  The bound is the scenarios', not the handlers'.
WithinCap == \A i \in DOMAIN sn' : Capped(sn'[i])

\* the notes whose window-level listeners are attached
Listening == {i \in NoteIds : sn[i].isDragging}

\* history of the drag session: a pointer-move wrote the dragged note's position
Moved(n) ==
    session' = IF session.note = n THEN [session EXCEPT !.moved = TRUE] ELSE session

(***************************************************************************)
(* The clock and the scene's gestures.                                     *)
(***************************************************************************)
Advance(d, steps) ==
    /\ Idle
    /\ Rendered
    /\ now + d <= steps * d
    /\ now' = now + d
    /\ UNCHANGED <<pointer, notes, cursorNote, mousePos, justCreated, guardTimers,
                   sceneDragging, hotZone, sn, bubble, session, grabs>>

\* the 100 ms timer of Scene.handleCornerClick
GuardTimer ==
    /\ Idle
    /\ \E d \in guardTimers :
        /\ now >= d
        /\ guardTimers' = guardTimers \ {d}
    /\ justCreated' = FALSE
    /\ UNCHANGED <<pointer, now, notes, cursorNote, mousePos, sceneDragging, hotZone,
                   sn, bubble, session, grabs>>

\* the pointer enters a corner area of pad note n
CornerEnter(n, side) ==
    /\ Idle
    /\ cornersRendered(n)
    /\ hotZone' = <<n, side>>
    /\ UNCHANGED <<pointer, now, notes, cursorNote, mousePos, justCreated, guardTimers,
                   sceneDragging, sn, bubble, session, grabs>>

CornerLeave ==
    /\ Idle
    /\ hotZone # NoZone
    /\ hotZone' = NoZone
    /\ UNCHANGED <<pointer, now, notes, cursorNote, mousePos, justCreated, guardTimers,
                   sceneDragging, sn, bubble, session, grabs>>

\* a click on a corner area of note n (the spawn gesture): the corner's
\* onClick, StickyNote.handleCornerClick and Scene.handleCornerClick, and then
\* the canvas's onClick for the same DOM click
CornerClick(n, limit) ==
    /\ Idle
    /\ ~notes[n].isDropped
    /\ DroppedCount < limit \/ cursorNote # NoCursor \/ ~cornersRendered(n)
    /\ LET sc == IF cornersRendered(n)
                 THEN sceneCornerClick(Scene, sn[n].pos, notes[n].color, now)
                 ELSE Scene
       IN  /\ SetScene(handleCanvasClick(sc))
           /\ hotZone' = IF sc.cursorNote # NoCursor THEN NoZone ELSE hotZone
    /\ UNCHANGED <<pointer, now, sceneDragging, bubble, session, grabs>>

\* a click on the canvas (the commit gesture)
CanvasClick ==
    /\ Idle
    /\ LET sc == handleCanvasClick(Scene)
       IN  SetScene(sc)
    /\ UNCHANGED <<pointer, now, sceneDragging, hotZone, bubble, session, grabs>>

\* a mouse move while a pending note may exist
CursorMove(hit) ==
    /\ Idle
    /\ SetScene(handleMouseMove(Scene, hit))
    /\ UNCHANGED <<pointer, now, sceneDragging, hotZone, bubble, session, grabs>>

(***************************************************************************)
(* Pointer events on notes.                                                *)
(***************************************************************************)
\* mouse.current after a handler has mapped the pointer event e
Mapped(e) ==
    [pointer EXCEPT !.mouse = getNormalizedPointerPosition(e, pointer.rect)]

\* pointer-down on note n: the mesh's onPointerDown (outer) or, for a pad
\* note, the full-note area's handlePointerDown reached first; an accepted
\* grab maps the event's (offsetX, offsetY), e
PointerDown(n, outer, cam, delta, e, limit) ==
    /\ Idle
    /\ outer \/ ~notes[n].isDropped
    /\ LET s == sn[n]
           hit == IF delta = NoHit THEN NoHit ELSE Add3(s.pos, delta)
           accepted == IF notes[n].isDropped
                       THEN droppedGrabAccepted(s, sceneDragging)
                       ELSE padGrabAccepted(s, sceneDragging, isCornerHovered(n))
           grabbed == IF notes[n].isDropped
                      THEN meshPointerDown(s, cam, hit)
                      ELSE handlePointerDown(s, cam, hit)
       IN  IF accepted
           THEN /\ grabs < limit
                /\ sn' = [sn EXCEPT ![n] = Rerender(notes[n], s, grabbed)]
                /\ sceneDragging' = TRUE
                /\ hotZone' = NoZone
                /\ session' = [note |-> n, pos0 |-> s.pos, mass0 |-> s.mass,
                               moved |-> FALSE]
                /\ grabs' = grabs + 1
                /\ pointer' = Mapped(e)
           ELSE /\ hotZone' = IF outer /\ isCornerHovered(n) THEN NoZone ELSE hotZone
                /\ UNCHANGED <<sn, sceneDragging, session, grabs, pointer>>
    /\ UNCHANGED <<now, notes, cursorNote, mousePos, justCreated, guardTimers, bubble>>

\* pointer-move, canvas phase: the onPointerMove of the mesh under the
\* pointer (m = 0: no note under the pointer), which maps the event's
\* (offsetX, offsetY), e, when its note is Dragging
PointerMoveCanvas(m, hit, e) ==
    /\ Idle
    /\ IF m # 0 /\ meshPointerMove(sn[m], hit) # sn[m]
       THEN /\ sn' = [sn EXCEPT ![m] = meshPointerMove(sn[m], hit)]
            /\ Moved(m)
       ELSE UNCHANGED <<sn, session>>
    /\ pointer' = IF m # 0 /\ sn[m].isDragging THEN Mapped(e) ELSE pointer
    /\ bubble' = IF Listening # {} THEN [kind |-> "move", hit |-> hit] ELSE NoBubble
    /\ UNCHANGED <<now, notes, cursorNote, mousePos, justCreated, guardTimers,
                   sceneDragging, hotZone, grabs>>

\* pointer-move, window phase: handleWindowMove of every listening note,
\* which maps the event's (clientX, clientY), c
PointerMoveWindow(c) ==
    /\ bubble.kind = "move"
    /\ pointer' = IF Listening # {} THEN Mapped(c) ELSE pointer
    /\ sn' = [i \in NoteIds |->
                IF i \in Listening THEN handlePointerMove(sn[i], bubble.hit) ELSE sn[i]]
    /\ session' = IF session.note \in Listening /\ bubble.hit # NoHit
                  THEN [session EXCEPT !.moved = TRUE]
                  ELSE session
    /\ bubble' = NoBubble
    /\ UNCHANGED <<now, notes, cursorNote, mousePos, justCreated, guardTimers,
                   sceneDragging, hotZone, grabs>>

\* pointer-up, canvas phase: the onPointerUp of the mesh under the pointer
\* (m = 0: no note under the pointer)
PointerUpCanvas(m, r) ==
    /\ Idle
    /\ LET released == m # 0 /\ sn[m].isDragging
       IN  /\ sn' = IF released
                    THEN [sn EXCEPT ![m] =
                            Rerender(notes[m], sn[m], meshPointerUp(sn[m], notes[m].isDropped, r))]
                    ELSE sn
           /\ sceneDragging' = IF released THEN FALSE ELSE sceneDragging
           /\ bubble' = IF Listening # {}
                        THEN [kind |-> "up", targets |-> Listening, handled |-> released]
                        ELSE NoBubble
           /\ hotZone' = IF m # 0 /\ isCornerHovered(m) THEN NoZone ELSE hotZone
    /\ UNCHANGED <<pointer, now, notes, cursorNote, mousePos, justCreated, guardTimers,
                   session, grabs>>

\* pointer-up, window phase: handleWindowUp of every note whose listener is
\* still attached.  When the canvas phase already released the note, the
\* listener of the render in which the note was dragging either still runs
\* (delivered) or was removed by the re-render in between.
PointerUpWindow(delivered) ==
    /\ bubble.kind = "up"
    /\ delivered \/ bubble.handled
    /\ sn' = [i \in NoteIds |->
                IF delivered /\ i \in bubble.targets
                THEN Rerender(notes[i], sn[i], handlePointerUp(sn[i]))
                ELSE sn[i]]
    /\ sceneDragging' = IF delivered THEN FALSE ELSE sceneDragging
    /\ session' = IF session.note # 0 /\ ~sn'[session.note].isDragging
                  THEN NoSession ELSE session
    /\ bubble' = NoBubble
    /\ UNCHANGED <<pointer, now, notes, cursorNote, mousePos, justCreated, guardTimers,
                   hotZone, grabs>>

(***************************************************************************)
(* The solver, the stabilizer's interval and the timers.                   *)
(***************************************************************************)
\* a solver frame for note n: the body is at p, and the position
\* subscription is called with p
SolverStep(n, p) ==
    /\ Idle
    /\ sn' = [sn EXCEPT ![n] =
                positionCallback([sn[n] EXCEPT !.pos = p], p, now, notes[n].isDropped)]
    /\ UNCHANGED <<pointer, session, now, notes, cursorNote, mousePos, justCreated, guardTimers,
                   sceneDragging, hotZone, bubble, grabs>>

\* a solver frame for a free note n, seen before the solver has applied what
\* the position subscription commands in it: the body has moved to p with
\* velocity v, the subscription is called with p, and the position it sets is
\* a command the solver applies at its next step
solverFrame(s, p, v, t, isDropped) ==
    LET s1 == positionCallback([s EXCEPT !.pos = p, !.vel = v], p, t, isDropped)
    IN  [s1 EXCEPT !.pos = p,
                   !.command = IF s1.pos # p THEN [at |-> p, to |-> s1.pos] ELSE NoCommand]

SolverFrame(n, p, v) ==
    /\ Idle
    /\ ~sn[n].isDragging
    /\ sn[n].mass > 0
    /\ sn[n].command = NoCommand
    /\ sn' = [sn EXCEPT ![n] = solverFrame(sn[n], p, v, now, notes[n].isDropped)]
    /\ UNCHANGED <<pointer, session, now, notes, cursorNote, mousePos, justCreated, guardTimers,
                   sceneDragging, hotZone, bubble, grabs>>

\* the solver's next step applies the commanded position, unless the core
\* has set another position since
SolverApply(n) ==
    /\ Idle
    /\ sn[n].command # NoCommand
    /\ sn' = [sn EXCEPT ![n] =
                [@ EXCEPT !.pos = IF @ = sn[n].command.at THEN sn[n].command.to ELSE @,
                          !.command = NoCommand]]
    /\ UNCHANGED <<pointer, session, now, notes, cursorNote, mousePos, justCreated, guardTimers,
                   sceneDragging, hotZone, bubble, grabs>>

\* a solver frame for note n: the body's rotation is r, and the rotation
\* subscription is called with r
RotationStep(n, r) ==
    /\ Idle
    /\ sn' = [sn EXCEPT ![n] = rotationCallback([sn[n] EXCEPT !.rot = r], r)]
    /\ UNCHANGED <<pointer, session, now, notes, cursorNote, mousePos, justCreated, guardTimers,
                   sceneDragging, hotZone, bubble, grabs>>

\* the render of a state update that a timer or the interval queued: React
\* runs it in a task of its own, after the callback that queued it
Render(n) ==
    /\ Idle
    /\ sn[n].seenSettled # sn[n].hasSettled
    /\ sn' = [sn EXCEPT ![n] = Rerender(notes[n], sn[n], sn[n])]
    /\ UNCHANGED <<pointer, session, now, notes, cursorNote, mousePos, justCreated, guardTimers,
                   sceneDragging, hotZone, bubble, grabs>>

\* a tick of the floor-check interval, which only dropped notes have.  The
\* interval (16 ms) is created together with the 0 ms timer of the
\* subscription effect, so its ticks come after every such timer has fired.
\* The setHasSettled(true) of the callback is queued for Render.
Tick(n) ==
    /\ Idle
    /\ notes[n].isDropped
    /\ sn[n].velocityTimer = 0
    /\ sn' = [sn EXCEPT ![n] = floorCheck(sn[n], now)]
    /\ UNCHANGED <<pointer, session, now, notes, cursorNote, mousePos, justCreated, guardTimers,
                   sceneDragging, hotZone, bubble, grabs>>

VelocityTimer(n, r) ==
    /\ Idle
    /\ sn[n].velocityTimer > 0
    /\ sn' = [sn EXCEPT ![n] = velocityTimerFire(sn[n], r)]
    /\ UNCHANGED <<pointer, session, now, notes, cursorNote, mousePos, justCreated, guardTimers,
                   sceneDragging, hotZone, bubble, grabs>>

SettleTimer(n) ==
    /\ Idle
    /\ sn[n].settleTimer > 0
    /\ sn' = [sn EXCEPT ![n] = settleTimerFire(sn[n])]
    /\ UNCHANGED <<pointer, session, now, notes, cursorNote, mousePos, justCreated, guardTimers,
                   sceneDragging, hotZone, bubble, grabs>>

StabilizeTimer(n) ==
    /\ Idle
    /\ sn[n].stabilizeTimer > 0
    /\ sn' = [sn EXCEPT ![n] = stabilizeTimerFire(sn[n], now)]
    /\ UNCHANGED <<pointer, session, now, notes, cursorNote, mousePos, justCreated, guardTimers,
                   sceneDragging, hotZone, bubble, grabs>>

(***************************************************************************)
(* Scenarios.  The program's next-state relation is Next; its state space  *)
(* is the product of every note's drag, solver and stabilizer state, so    *)
(* each property is checked on the scenarios that exercise it.  Every      *)
(* scenario starts from Init and takes only steps of Next.  The      *)
(* handlers that start a timer are taken within the bound WithinCap.       *)
(***************************************************************************)
\* spawn and commit, which every scenario needs to create committed notes
Create(limit) ==
    \/ GuardTimer
    \/ \E n \in NoteIds : CornerClick(n, limit)
    \/ CanvasClick

\* a layout change gives the canvas the rectangle rect
Resize(rect) ==
    /\ Idle
    /\ pointer' = [pointer EXCEPT !.rect = rect]
    /\ UNCHANGED <<now, notes, cursorNote, mousePos, justCreated, guardTimers,
                   sceneDragging, hotZone, sn, bubble, session, grabs>>

\* the drag gestures on any note, with pointer events drawn from events
Drag(limit, events) ==
    \/ \E n \in NoteIds, outer \in BOOLEAN, cam \in Cameras,
          delta \in GrabDeltas \cup {NoHit}, e \in events :
          PointerDown(n, outer, cam, delta, e, limit) /\ WithinCap
    \/ \E m \in NoteIds \cup {0}, hit \in MoveHits \cup {NoHit}, e \in events :
          PointerMoveCanvas(m, hit, e)
    \/ \E c \in events : PointerMoveWindow(c)
    \/ \E m \in NoteIds \cup {0}, r \in DropRandoms : PointerUpCanvas(m, r) /\ WithinCap
    \/ \E delivered \in BOOLEAN : PointerUpWindow(delivered) /\ WithinCap

\* the stabilizer's interval and the timers of every note
Stabilizer ==
    \/ \E n \in NoteIds : Render(n) /\ WithinCap
    \/ \E n \in NoteIds : Tick(n) /\ WithinCap
    \/ \E n \in NoteIds, r \in VelRandoms : VelocityTimer(n, r)
    \/ \E n \in NoteIds : SettleTimer(n)
    \/ \E n \in NoteIds : StabilizeTimer(n)

\* Gesture scenarios: grabs, moves, releases, hovers, spawns and commits on
\* every note while the solver and the interval are at rest; the 0 ms timers
\* that the renders schedule fire.
GestureNext ==
    \/ \E n \in NoteIds, r \in VelRandoms : VelocityTimer(n, r)
    \/ Advance(GUARD_DELAY, GestureClock)
    \/ Create(MaxDropped)
    \/ \E n \in NoteIds, side \in {"left", "right"} : CornerEnter(n, side)
    \/ CornerLeave
    \/ \E hit \in CursorHits \cup {NoHit} : CursorMove(hit)
    \/ Drag(GestureGrabs, DragEvents)

GestureSpec == Init /\ [][GestureNext]_vars

\* Drag scenarios: one drag session on a pad note or on a committed note,
\* interleaved with solver frames, interval ticks and timers.
DragNext ==
    \/ Advance(LongStep, MaxClock)
    \/ Create(MaxDropped)
    \/ Drag(MaxGrabs, DragEvents)
    \/ \E n \in NoteIds : \E p \in DragReports(n) : SolverStep(n, p) /\ WithinCap
    \/ Stabilizer

DragSpec == Init /\ [][DragNext]_vars

\* Free-fall scenarios: a note is spawned and committed, and every note is
\* left to the solver, the interval and the timers; nothing is grabbed.
FallReports(n) == SolverPos \cup {sn[n].pos}

FallNext ==
    \/ Advance(HalfPeriod, FallClock)
    \/ Create(MaxDropped)
    \/ \E n \in NoteIds : \E p \in FallReports(n) : SolverStep(n, p) /\ WithinCap
    \/ Stabilizer

FallSpec == Init /\ [][FallNext]_vars

\* Pair scenarios: two notes are committed from the same pad note and left
\* to the solver, the interval and the 0 ms timers.
PairNext ==
    \/ Advance(HalfPeriod, FallClock)
    \/ Create(FallDropped)
    \/ \E n \in NoteIds : \E p \in DragReports(n) : SolverStep(n, p) /\ WithinCap
    \/ \E n \in NoteIds : Render(n) /\ WithinCap
    \/ \E n \in NoteIds : Tick(n) /\ WithinCap
    \/ \E n \in NoteIds, r \in VelRandoms : VelocityTimer(n, r)

PairSpec == Init /\ [][PairNext]_vars

\* Fair free fall.  The clock, the timers and the interval run on their own,
\* and under gravity the solver eventually reports a free note on the ground.
Slots == 1..(PadCount + MaxDropped)

Fairness ==
    /\ WF_vars(Advance(HalfPeriod, FallClock))
    /\ WF_vars(GuardTimer)
    /\ \A n \in Slots :
        /\ WF_vars(n \in NoteIds /\ \E p \in SolverPos : SolverStep(n, p) /\ WithinCap)
        /\ WF_vars(n \in NoteIds /\ Render(n) /\ WithinCap)
        /\ WF_vars(n \in NoteIds /\ Tick(n) /\ WithinCap)
        /\ WF_vars(n \in NoteIds /\ \E r \in VelRandoms : VelocityTimer(n, r))
        /\ WF_vars(n \in NoteIds /\ SettleTimer(n))
        /\ WF_vars(n \in NoteIds /\ StabilizeTimer(n))

FairFallSpec == FallSpec /\ Fairness

\* Fault scenarios: a note is spawned and committed and left to the solver,
\* which may also report a position or a rotation that is not finite, or a
\* rotation tilted beyond the limit; the clock steps past the grace period.
FaultReports(n) ==
    IF notes[n].isDropped THEN SolverPos \cup {sn[n].pos} \cup NonFinite ELSE {sn[n].pos}

FaultNext ==
    \/ Advance(LongStep, MaxClock)
    \/ Create(MaxDropped)
    \/ \E n \in NoteIds : \E p \in FaultReports(n) : SolverStep(n, p) /\ WithinCap
    \/ \E n \in NoteIds : \E r \in RotReports : RotationStep(n, r)
    \/ Stabilizer

FaultSpec == Init /\ [][FaultNext]_vars

\* Lag scenarios: free fall in which a solver frame is seen before the solver
\* has applied the correction the frame's callback commands, so that the
\* interval can run while a body is below the floor bound.
LagNext ==
    \/ Advance(HalfPeriod, FallClock)
    \/ Create(MaxDropped)
    \/ \E n \in NoteIds, p \in SolverPos, v \in FallVelocities : SolverFrame(n, p, v) /\ WithinCap
    \/ \E n \in NoteIds : SolverApply(n)
    \/ Stabilizer

LagSpec == Init /\ [][LagNext]_vars

\* Pointer scenarios: drags on the pad note with every pointer event under
\* every canvas rectangle; the grab and the move handlers map the events.
MapperNext ==
    \/ \E rect \in Rects : Resize(rect)
    \/ Drag(MaxGrabs, PointerEvents)

MapperSpec == Init /\ [][MapperNext]_vars

Next == GestureNext \/ DragNext \/ FallNext \/ PairNext \/ FaultNext \/ LagNext \/ MapperNext

Spec == Init /\ [][Next]_vars

(***************************************************************************)
(* Properties.                                                             *)
(***************************************************************************)
Dragging == {i \in NoteIds : sn[i].isDragging}

\* the notes that have been grabbed at least once (a grab stores the plane)
Grabbed == {i \in NoteIds : sn[i].plane.normal # 0}

\* C1: after any sequence of grabs, pointer-moves, releases, spawns and
\* commits on any notes, at most one note is Dragging.
C1_AtMostOneDragging == Cardinality(Dragging) <= 1

\* a second drag session, on a scene with a pad note and a committed note,
\* after the first grabbed note was released
C1_Witness ==
    /\ Len(notes) >= 2
    /\ grabs = 2
    /\ Cardinality(Dragging) = 1
    /\ Cardinality(Grabbed) = 2
    /\ sceneDragging

\* C2: in every reachable state a Dragging note has solver mass 0, whatever
\* ticks, solver callbacks and earlier-scheduled timers run during the drag.
C2_DraggingMassZero == \A n \in NoteIds : sn[n].isDragging => sn[n].mass = 0

\* C3: in every reachable state a note that is not Dragging has non-zero
\* mass; the mass becomes 0 only in the step that starts a drag, and every
\* step that ends a drag leaves it positive.
C3_FreeMassPositive ==
    /\ [](\A n \in NoteIds : ~sn[n].isDragging => sn[n].mass > 0)
    /\ [][\A n \in NoteIds :
            /\ (sn[n].mass # 0 /\ sn'[n].mass = 0)
                   => (~sn[n].isDragging /\ sn'[n].isDragging)
            /\ (sn[n].isDragging /\ ~sn'[n].isDragging) => sn'[n].mass > 0]_vars

\* a committed note was grabbed and released by handleDrop, and a pad note is
\* at its mounted mass
C3_Witness ==
    \E n \in Grabbed :
        /\ notes[n].isDropped
        /\ ~sn[n].isDragging
        /\ sn[n].mass = DROP_MASS
        /\ session = NoSession

\* the step ends the drag session of note n
Releases(n) == session.note = n /\ sn[n].isDragging /\ ~sn'[n].isDragging

\* a committed note between the canvas phase of the pointer-up that released
\* it and the window phase
JustDropped(n) ==
    /\ bubble.kind = "up"
    /\ bubble.handled
    /\ session.note = n
    /\ notes[n].isDropped
    /\ ~sn[n].isDragging

Lifted(p) == <<p[1], plus(p[2], DRAG_LIFT), p[3]>>

\* C4 (as stated): grabbing a note and releasing it with no pointer-move in
\* between leaves the commanded position equal to the pre-grab position.
C4_RoundTripPosition ==
    [][\A n \in NoteIds :
         (Releases(n) /\ ~session.moved) => sn'[n].pos = session.pos0]_vars

\* C4 (amended): a grab commands the pre-grab position lifted by 0.2; a
\* release with no pointer-move in between leaves the note at that lifted
\* position, or, for a committed note released by handleDrop, at the lifted
\* position displaced by (randomX, randomZ) and raised to at least the floor
\* bound plus the stack separation.
C4_RoundTripLifted ==
    [][\A n \in NoteIds :
         /\ (~sn[n].isDragging /\ sn'[n].isDragging) => sn'[n].pos = Lifted(sn[n].pos)
         /\ (Releases(n) /\ ~session.moved) =>
               LET l == Lifted(session.pos0)
               IN  \/ sn'[n].pos = l
                   \/ /\ notes[n].isDropped
                      /\ \E r \in DropRandoms :
                            sn'[n].pos = <<l[1] + r[1],
                                           Max(l[2], floorY + STACK_SEPARATION),
                                           l[3] + r[2]>>]_vars

\* a committed note was grabbed and released by handleDrop with no
\* pointer-move in between, and is not at its pre-grab position
C4_Witness ==
    \E n \in NoteIds :
        /\ JustDropped(n)
        /\ ~session.moved
        /\ sn[n].pos # session.pos0
        /\ sn[n].pos[2] = session.pos0[2] + DRAG_LIFT

\* C5 (as stated): grabbing a note and releasing it leaves the note's mass
\* equal to the mass it had immediately before the grab.
C5_RoundTripMass ==
    [][\A n \in NoteIds : Releases(n) => sn'[n].mass = session.mass0]_vars

\* C5 (amended): a release sets the mass to a value that does not depend on
\* the pre-grab mass: 1.0 for a pad note, which is its pre-grab mass, and for
\* a committed note 0.1 (handleDrop) or 1.0 (window-level handlePointerUp).
C5_ReleaseMass ==
    [][\A n \in NoteIds :
         Releases(n) =>
             IF notes[n].isDropped
             THEN sn'[n].mass \in {DROP_MASS, RELEASE_MASS}
             ELSE sn'[n].mass = RELEASE_MASS /\ session.mass0 = RELEASE_MASS]_vars

\* a committed note that had settled (mass 0.5) was grabbed and released by
\* handleDrop, which left it at mass 0.1
C5_Witness ==
    \E n \in NoteIds :
        /\ JustDropped(n)
        /\ session.mass0 = SETTLE_MASS
        /\ sn[n].mass = DROP_MASS

\* the step is a pointer-move, in its canvas phase or its window phase
PointerMoveStep ==
    \/ \E m \in NoteIds \cup {0}, hit \in MoveHits \cup {NoHit}, e \in DragEvents :
          PointerMoveCanvas(m, hit, e)
    \/ \E c \in DragEvents : PointerMoveWindow(c)

\* C6: every position a pointer-move writes for a Dragging note, through the
\* window-level handler or the note's own handler, has y at or above
\* FLOOR_LEVEL + HALF_HEIGHT + FLOOR_OFFSET.
C6_MoveAboveFloor ==
    [][PointerMoveStep =>
         \A n \in NoteIds :
             (sn[n].isDragging /\ sn'[n].pos # sn[n].pos) => sn'[n].pos[2] >= floorY]_vars

\* C7: from the tick that settles a note until its next grab, its y is at or
\* above the floor bound at every stabilizer tick.  A tick can run in every
\* state that has no pointer event in dispatch, so this is an invariant of
\* those states.
C7_SettledAboveFloor ==
    \A n \in NoteIds :
        (Idle /\ sn[n].hasSettled /\ ~sn[n].isDragging /\ sn[n].velocityTimer = 0)
            => sn[n].pos[2] >= floorY

\* C9: once a note is Settled (the flag is set and the component has rendered
\* with it) and is not interacted with, every step leaves its commanded
\* linear velocity at zero.
C9_SettledVelocityZero ==
    [][\A n \in NoteIds :
         (sn[n].hasSettled /\ sn[n].seenSettled /\ ~sn[n].isDragging /\ sn'[n].hasSettled)
             => sn'[n].vel = Zero3]_vars

\* C8: every note that starts above the floor and is never grabbed is
\* eventually Settled, the initial pad notes as well as committed notes.
C8_EveryNoteSettles ==
    \A n \in Slots : [](n \in NoteIds => <>(n \in NoteIds /\ sn[n].hasSettled))

\* C10: any two distinct settled notes have different depth offsets.
C10_DistinctOffsets ==
    \A i, j \in NoteIds :
        (i # j /\ sn[i].hasSettled /\ sn[j].hasSettled)
            => depthOffset(sn[i].creationTime) # depthOffset(sn[j].creationTime)

\* the step settles note n: it runs the settle transition of the interval
\* callback (which starts a 500 ms timer) or the stabilization timer fires;
\* both call setHasSettled(true)
Settles(n) ==
    \/ sn'[n].settleTimer > sn[n].settleTimer
    \/ sn'[n].stabilizeTimer < sn[n].stabilizeTimer

\* C11: the depth offset applied at a note's settlement is the same at every
\* settlement of its lifetime, the first and every later one: each settlement
\* leaves the note at the height floor bound + separation +
\* offset(creation timestamp), and the creation timestamp of a mounted note
\* never changes.
C11_OffsetStable ==
    [][\A n \in NoteIds :
         /\ sn'[n].creationTime = sn[n].creationTime
         /\ Settles(n) =>
               sn'[n].pos[2] = floorY + STACK_SEPARATION + depthOffset(sn[n].creationTime)]_vars

\* C12: a commit (canvas click) when no pending note exists changes nothing:
\* the notes list, the pending note (still none), the tracked pointer
\* position, the creation guard flag and its timers are what they were, so
\* repeating it changes nothing either.
C12_CommitWithoutPending ==
    (Idle /\ cursorNote = NoCursor) =>
        /\ handleCanvasClick(Scene) = Scene
        /\ handleCanvasClick(handleCanvasClick(Scene)) = Scene

\* a canvas click can arrive with no pending note, after a note was spawned,
\* tracked and committed
C12_Witness ==
    /\ Idle
    /\ cursorNote = NoCursor
    /\ DroppedCount > 0
    /\ mousePos # Zero3

\* the note that a commit of the pending note appends
CommittedPending ==
    [id |-> cursorNote.id, position |-> mousePos, color |-> cursorNote.color,
     isDropped |-> TRUE]

\* C13: at most one pending note exists, and a spawn gesture issued while one
\* exists is ignored: no corner area accepts the click, Scene.handleCornerClick
\* leaves the scene as it is, and the click on a corner of a pad note leaves
\* the pending note with its id, color, source position and tracked position.
C13_SpawnWhilePendingIgnored ==
    /\ [](cursorNote # NoCursor =>
            \A n \in NoteIds :
                /\ ~cornersRendered(n)
                /\ sceneCornerClick(Scene, sn[n].pos, notes[n].color, now) = Scene)
    /\ [][\A n \in NoteIds :
             (cursorNote # NoCursor /\ CornerClick(n, MaxDropped)) =>
                 UNCHANGED <<cursorNote, mousePos>>]_vars

\* C13, amended: at most one pending note exists and a spawn gesture issued
\* while one exists creates no pending note: no corner area accepts the click,
\* Scene.handleCornerClick leaves the scene as it is and no step replaces a
\* pending note by another.  The click reaches the canvas's click handler
\* only: within the creation guard it changes nothing, and after it the
\* pending note is committed with its id and color at its tracked position.
C13_SpawnWhilePendingCommits ==
    /\ [](cursorNote # NoCursor =>
            \A n \in NoteIds :
                /\ ~cornersRendered(n)
                /\ sceneCornerClick(Scene, sn[n].pos, notes[n].color, now) = Scene)
    /\ [][cursorNote # NoCursor =>
             /\ cursorNote' \in {cursorNote, NoCursor}
             /\ \A n \in NoteIds :
                   CornerClick(n, MaxDropped) =>
                       IF justCreated
                       THEN UNCHANGED <<cursorNote, mousePos, notes>>
                       ELSE /\ cursorNote' = NoCursor
                            /\ mousePos' = mousePos
                            /\ notes' = Append(notes, CommittedPending)]_vars

\* a pending note exists, the guard delay has passed and the pointer has been
\* tracked away from the place it was spawned at
C13_Witness ==
    /\ Idle
    /\ cursorNote # NoCursor
    /\ ~justCreated
    /\ mousePos # cursorNote.sourcePosition
    /\ DateNow(now) > cursorNote.id

\* the step creates a pending note
Spawns == cursorNote = NoCursor /\ cursorNote' # NoCursor

\* C14: a spawn from a note at (x, y, z) of color c creates the pending note
\* at (x, y + PAD_THICKNESS / 2 + NOTE_THICKNESS, z) with color c, tracked at
\* that position, and adds no note and no body.
C14_SpawnElevated ==
    [][Spawns =>
          /\ \E n \in NoteIds :
                /\ ~notes[n].isDropped
                /\ cursorNote'.position =
                      <<sn[n].pos[1],
                        sn[n].pos[2] + PAD_THICKNESS \div 2 + NOTE_THICKNESS,
                        sn[n].pos[3]>>
                /\ cursorNote'.color = notes[n].color
          /\ cursorNote'.sourcePosition = cursorNote'.position
          /\ mousePos' = cursorNote'.position
          /\ notes' = notes
          /\ sn' = sn]_vars

\* a pending note has just been spawned from a pad note that a grab had lifted
\* before
C14_Witness ==
    /\ cursorNote # NoCursor
    /\ cursorNote.id = DateNow(now)
    /\ justCreated
    /\ \E n \in Grabbed :
          /\ ~notes[n].isDropped
          /\ sn[n].pos # notes[n].position
          /\ cursorNote.position[2] = sn[n].pos[2] + PAD_THICKNESS \div 2 + NOTE_THICKNESS

\* the step removes the pending note
Commits == cursorNote # NoCursor /\ cursorNote' = NoCursor

\* C15: an accepted commit appends exactly one note, at the last tracked
\* pointer position, with the pending note's id and color; the notes that
\* existed and their bodies are unchanged and no pending note is left.  Nothing
\* else changes the notes list.
C15_CommitAppendsOne ==
    [][/\ Commits =>
            /\ notes' = Append(notes, [id |-> cursorNote.id,
                                       position |-> mousePos,
                                       color |-> cursorNote.color,
                                       isDropped |-> TRUE])
            /\ Len(sn') = Len(sn) + 1
            /\ \A i \in NoteIds : sn'[i] = sn[i]
            /\ mousePos' = mousePos
       /\ notes' # notes => Commits]_vars

\* a note was committed at a tracked position away from the spawn position,
\* after the guard delay
C15_Witness ==
    /\ cursorNote = NoCursor
    /\ Len(notes) > PadCount
    /\ LET note == notes[Len(notes)]
       IN  /\ note.isDropped
           /\ note.position = mousePos
           /\ \E hit \in CursorHits : note.position[1] = hit[1] /\ note.position[3] = hit[2]
           /\ note.id < DateNow(now)

\* C16: a grab attempted while a drag session is active is rejected and
\* changes nothing: no note's guard accepts it, and a pointer-down in such a
\* state leaves every note's mass, velocity, position and settled flag, the
\* dragged note's plane and offset, and the global drag flag as they were.
C16_GrabDuringSessionRejected ==
    /\ [](Listening # {} =>
            /\ sceneDragging
            /\ \A n \in NoteIds :
                  IF notes[n].isDropped
                  THEN ~droppedGrabAccepted(sn[n], sceneDragging)
                  ELSE \A hovered \in BOOLEAN :
                          ~padGrabAccepted(sn[n], sceneDragging, hovered))
    /\ [][\A n \in NoteIds, outer \in BOOLEAN, cam \in Cameras,
            delta \in GrabDeltas \cup {NoHit}, e \in DragEvents :
            (Listening # {} /\ PointerDown(n, outer, cam, delta, e, GestureGrabs)) =>
                UNCHANGED <<sn, sceneDragging, session>>]_vars

\* a note is being dragged with a non-zero grab offset while another note,
\* committed and at rest in the scene, is there to be grabbed
C16_Witness ==
    /\ Idle
    /\ \E d \in Listening :
          /\ sn[d].dragOffset # Zero3
          /\ \E n \in NoteIds \ Listening : notes[n].isDropped /\ sn[n].mass > 0

\* C17: a release that arrives on a note that is not Dragging is a no-op: the
\* note's own pointer-up handler returns the note as it was (mass, position,
\* velocity, settled flag), a pointer-up on such a note changes no note and
\* not the global drag flag, and the window phase of a pointer-up changes no
\* note that was not Dragging when the pointer-up arrived.
C17_ReleaseWithoutGrab ==
    /\ [](\A n \in NoteIds, r \in DropRandoms :
            ~sn[n].isDragging => meshPointerUp(sn[n], notes[n].isDropped, r) = sn[n])
    /\ [][\A m \in NoteIds, r \in DropRandoms :
            (~sn[m].isDragging /\ PointerUpCanvas(m, r)) =>
                UNCHANGED <<sn, sceneDragging>>]_vars
    /\ [][\A delivered \in BOOLEAN :
            PointerUpWindow(delivered) =>
                \A n \in NoteIds \ bubble.targets : sn'[n] = sn[n]]_vars

\* a pointer-up has arrived while one note is Dragging and a committed note,
\* released from an earlier grab, is not
C17_Witness ==
    /\ bubble.kind = "up"
    /\ ~bubble.handled
    /\ \E n \in Grabbed \ bubble.targets :
          /\ notes[n].isDropped
          /\ ~sn[n].isDragging
          /\ sn[n].mass > 0

\* what the solver holds of a note's body
Body(s) == [pos |-> s.pos, rot |-> s.rot, vel |-> s.vel, mass |-> s.mass]

\* the positions the solver can report for a note: a body of mass 0 is static
\* and stays where it was put
BodyReports(n) == IF sn[n].mass = 0 THEN {sn[n].pos} ELSE DragReports(n)

\* C18: while a note is Dragging no stabilizer action writes position,
\* rotation, velocity or mass to its body: an interval tick and the timers of
\* the settle transition and of the floor-contact branch leave the body as it
\* was, and the position subscription leaves it where the solver reported it.
C18_NoStabilizerWriteWhileDragging ==
    [][\A n \in NoteIds :
         sn[n].isDragging =>
            /\ (Tick(n) \/ SettleTimer(n) \/ StabilizeTimer(n)) =>
                   Body(sn'[n]) = Body(sn[n])
            /\ \A p \in BodyReports(n) :
                   SolverStep(n, p) => Body(sn'[n]) = Body([sn[n] EXCEPT !.pos = p])]_vars

\* a pointer-up reaches a release handler of note n in this step: the mesh's
\* onPointerUp, or handleWindowUp of the listener attached while n is dragged
PointerUpDelivered(n) ==
    \/ \E r \in DropRandoms : PointerUpCanvas(n, r)
    \/ bubble.kind = "up" /\ n \in bubble.targets /\ PointerUpWindow(TRUE)

\* C19: a pointer-up delivered while a note is Dragging ends the session:
\* after the handler the note is not Dragging, the global drag flag is false
\* and the note's mass is positive; and when the dispatch of a pointer-up is
\* over, this holds of every note that was Dragging when it arrived.
C19_PointerUpEndsSession ==
    /\ [][\A n \in NoteIds :
            (sn[n].isDragging /\ PointerUpDelivered(n)) =>
                /\ ~sn'[n].isDragging
                /\ ~sceneDragging'
                /\ sn'[n].mass > 0]_vars
    /\ [][(bubble.kind = "up" /\ bubble' = NoBubble) =>
            /\ ~sceneDragging'
            /\ \A n \in bubble.targets : ~sn'[n].isDragging /\ sn'[n].mass > 0]_vars

\* a committed note, dragged away from where it was grabbed, was released by
\* the window-level listener
C19_Witness ==
    /\ Idle
    /\ ~sceneDragging
    /\ \E n \in Grabbed :
          /\ notes[n].isDropped
          /\ ~sn[n].isDragging
          /\ sn[n].mass = RELEASE_MASS
          /\ sn[n].dragOffset # Zero3

\* C20: a note's settled flag goes from false to true only at a moment when
\* its speed on every axis is below the stillness threshold, its height is
\* below floor bound + MAX_STACK_DETECTION_DISTANCE, and the highest height
\* observed exceeds its height by more than FALL_DETECTION_DELTA.
C20_SettlesOnlyAtRest ==
    [][\A n \in NoteIds :
         (~sn[n].hasSettled /\ sn'[n].hasSettled) =>
            /\ isNearlyStationary(sn[n].vel)
            /\ sn[n].pos[2] < floorY + MAX_STACK_DETECTION_DISTANCE
            /\ sn'[n].highestYPosition - sn[n].pos[2] > FALL_DETECTION_DELTA]_vars

\* C21: whenever a note's settled flag goes from false to true, the same
\* transition has put the note at y = floor bound + STACK_SEPARATION + its
\* depth offset with x and z kept, zeroed its linear and angular velocity and
\* made its rotation canonical.
C21_SettleHardSets ==
    [][\A n \in NoteIds :
         (~sn[n].hasSettled /\ sn'[n].hasSettled) =>
            /\ sn'[n].pos = <<sn[n].pos[1],
                              floorY + STACK_SEPARATION + depthOffset(sn[n].creationTime),
                              sn[n].pos[3]>>
            /\ sn'[n].vel = Zero3
            /\ sn'[n].angVel = Zero3
            /\ sn'[n].rot = Canonical]_vars

\* C22: while a note is Dragging its settled flag is false.
C22_DraggingNotSettled ==
    \A n \in NoteIds : sn[n].isDragging => ~sn[n].hasSettled

\* everything the core can write to a note's body
FullBody(s) ==
    [pos |-> s.pos, rot |-> s.rot, vel |-> s.vel, angVel |-> s.angVel, mass |-> s.mass]

\* note n has been Settled for more than the grace period and is not Dragging
PastGrace(n) ==
    sn[n].hasSettled /\ now - sn[n].settleTime > GRACE_PERIOD /\ ~sn[n].isDragging

\* C23: once a note has been Settled for more than the grace period and is
\* not Dragging, no stabilizer path writes to its body: an interval tick leaves
\* the body as it was, and the position and the rotation subscription leave
\* it as the solver reported it.
C23_NoWriteAfterGrace ==
    [][\A n \in NoteIds :
         PastGrace(n) =>
            /\ Tick(n) => FullBody(sn'[n]) = FullBody(sn[n])
            /\ \A p \in FaultReports(n) :
                   SolverStep(n, p) => FullBody(sn'[n]) = FullBody([sn[n] EXCEPT !.pos = p])
            /\ \A r \in RotReports :
                   RotationStep(n, r) => FullBody(sn'[n]) = FullBody([sn[n] EXCEPT !.rot = r])]_vars

\* C24: on every position report that is not finite the core writes the last
\* valid position back to the solver and does nothing else: the trackers, the
\* snapshot and every other field are as before, in every state of the note.
C24_NonFinitePositionRestored ==
    [][\A n \in NoteIds :
         (NaN3 \in FaultReports(n) /\ SolverStep(n, NaN3)) =>
             sn'[n] = [sn[n] EXCEPT !.pos = sn[n].lastValidPosition]]_vars

\* C25: on every rotation report that is not finite the core writes the last
\* valid rotation back to the solver.
C25_NonFiniteRotationRestored ==
    [][\A n \in NoteIds :
         RotationStep(n, NaN3) => sn'[n].rot = sn[n].lastValidRotation]_vars

\* C26: the last valid position snapshot is only ever overwritten with a
\* position whose components are finite and whose height is at or above the
\* floor bound, by the position subscription, at grab and at drop.
C26_SnapshotValid ==
    [][\A n \in NoteIds :
         sn'[n].lastValidPosition # sn[n].lastValidPosition =>
            /\ isFinite3(sn'[n].lastValidPosition)
            /\ sn'[n].lastValidPosition[2] >= floorY]_vars

\* C27: the drag plane (normal and point) and the grab offset of a note are
\* written only by the step that starts a drag of it: between an accepted
\* grab and the release, pointer-moves, ticks, timers and solver callbacks
\* leave both as the grab set them.
C27_PlaneFixedDuringDrag ==
    [][\A n \in NoteIds :
         (sn'[n].plane # sn[n].plane \/ sn'[n].dragOffset # sn[n].dragOffset) =>
             (~sn[n].isDragging /\ sn'[n].isDragging)]_vars

\* a dragged note has followed a pointer-move away from where the grab put
\* it, with the plane still through the grab position
C27_Witness ==
    \E n \in Listening :
        /\ session.note = n
        /\ session.moved
        /\ sn[n].plane.point = session.pos0
        /\ sn[n].pos # Lifted(session.pos0)
        /\ sn[n].dragOffset # Zero3

\* C28: when a grab is accepted and the pointer ray does not meet the drag
\* plane, the grab offset of the session is the zero vector.
C28_NoHitZeroOffset ==
    [][\A n \in NoteIds, outer \in BOOLEAN, cam \in Cameras, e \in DragEvents :
         (~sn[n].isDragging /\ PointerDown(n, outer, cam, NoHit, e, GestureGrabs)
             /\ sn'[n].isDragging) =>
             sn'[n].dragOffset = Zero3]_vars

\* C29: a pointer-down on a pad note while one of its corner areas is hovered
\* does not start a drag: such a note is not Dragging, has a non-zero mass and
\* the global drag flag is false, and the pointer-down leaves every note and
\* the global drag flag as they were.
C29_HotZoneGrabRejected ==
    /\ [](\A n \in NoteIds :
            isCornerHovered(n) =>
                /\ ~sn[n].isDragging /\ sn[n].mass # 0 /\ ~sceneDragging
                /\ ~padGrabAccepted(sn[n], sceneDragging, isCornerHovered(n)))
    /\ [][\A n \in NoteIds, outer \in BOOLEAN, cam \in Cameras,
            delta \in GrabDeltas \cup {NoHit}, e \in DragEvents :
            (isCornerHovered(n) /\ PointerDown(n, outer, cam, delta, e, GestureGrabs)) =>
                /\ ~sn'[n].isDragging
                /\ sn'[n].mass # 0
                /\ ~sceneDragging'
                /\ UNCHANGED <<sn, session, grabs>>]_vars

\* a corner area of a pad note that was dragged and released before is
\* hovered, and nothing else would keep a pointer-down from being accepted
C29_Witness ==
    /\ Idle
    /\ ~sceneDragging
    /\ \E n \in Grabbed :
          /\ isCornerHovered(n)
          /\ ~notes[n].isDropped
          /\ padGrabAccepted(sn[n], sceneDragging, FALSE)
          /\ grabs < GestureGrabs

\* C30: once an accepted grab and the actions it triggers have run (the
\* timer the grab's re-render scheduled has fired), and until the first
\* pointer-move or the release, the note has mass 0, zero linear and angular
\* velocity, canonical rotation and a cleared settled flag.
C30_GrabResetsBody ==
    \A n \in NoteIds :
        (sn[n].isDragging /\ session.note = n /\ ~session.moved /\ sn[n].velocityTimer = 0) =>
            /\ sn[n].mass = 0
            /\ sn[n].vel = Zero3
            /\ sn[n].angVel = Zero3
            /\ sn[n].rot = Canonical
            /\ ~sn[n].hasSettled

\* C31: the input event that spawns a pending note never also commits it, and
\* a commit that arrives while the just-created guard is set leaves the pending
\* note in place and adds no note: the spawn step ends with the pending note
\* and the notes list it had, the commit handler returns the scene as it is,
\* and no step taken while the guard is set changes the list or the pending
\* note.
C31_SpawnDoesNotCommit ==
    /\ [][\A n \in NoteIds :
            (cursorNote = NoCursor /\ cornersRendered(n) /\ CornerClick(n, MaxDropped)) =>
                (cursorNote' # NoCursor /\ justCreated' /\ notes' = notes)]_vars
    /\ []((justCreated /\ cursorNote # NoCursor) => handleCanvasClick(Scene) = Scene)
    /\ [][justCreated => (notes' = notes /\ cursorNote' = cursorNote)]_vars

\* a pending note exists, its guard is still set and the pointer has already
\* been tracked away from the spawn position
C31_Witness ==
    /\ Idle
    /\ justCreated
    /\ cursorNote # NoCursor
    /\ guardTimers # {}
    /\ mousePos # cursorNote.position

\* C32: while a pending note exists the height of its tracked position is the
\* spawn height: a pointer-move changes only x and z, a move whose ray misses
\* the horizontal plane changes nothing, and the note a commit appends has the
\* spawn height.
C32_TrackedHeightFixed ==
    /\ [](cursorNote # NoCursor =>
            /\ cursorNote.sourcePosition = cursorNote.position
            /\ mousePos[2] = cursorNote.sourcePosition[2]
            /\ handleMouseMove(Scene, NoHit) = Scene
            /\ \A hit \in CursorHits :
                  handleMouseMove(Scene, hit).mousePos =
                      <<hit[1], cursorNote.sourcePosition[2], hit[2]>>)
    /\ [][Commits =>
            notes'[Len(notes')].position[2] = cursorNote.sourcePosition[2]]_vars

\* the pending note has been tracked away from the spawn position in x and z
C32_Witness ==
    /\ cursorNote # NoCursor
    /\ mousePos[1] # cursorNote.position[1]
    /\ mousePos[3] # cursorNote.position[3]
    /\ mousePos[2] = cursorNote.position[2]
    /\ mousePos[2] # 0


\* what one period of the floor-check effect does to a note: the effect
\* returns at once for a pad note and starts no interval for it
intervalTick(note, s, t) ==
    IF note.isDropped THEN floorCheck(s, t) ELSE s

\* C33: when a non-dragging, not-yet-settled note, pad or committed, is below
\* the floor bound at a stabilizer tick, then after that tick the position
\* commanded for it is the floor bound plus STACK_SEPARATION and its velocity
\* is zero.
C33_TickLiftsEveryNote ==
    \A n \in NoteIds :
        (Idle /\ ~sn[n].isDragging /\ ~sn[n].hasSettled /\ lt(sn[n].pos[2], floorY)) =>
            LET s == intervalTick(notes[n], sn[n], now)
            IN  /\ \/ s.pos[2] = floorY + STACK_SEPARATION
                   \/ /\ s.command # NoCommand
                      /\ s.command.to[2] = floorY + STACK_SEPARATION
                /\ s.vel = Zero3


\* the reported rotation r is finite and further from the canonical resting
\* orientation than the tolerance of the rotation subscription
TiltExceeds(r) ==
    /\ isFinite3(r)
    /\ Abs(r[1] - Canonical[1]) > TILT_LIMIT

\* C34: on every rotation report whose tilt from the canonical resting
\* orientation exceeds the tolerance, the rotation written back is the full
\* canonical orientation (pi/2, 0, 0) and the angular velocity is zero.
C34_TiltResetToCanonical ==
    [][\A n \in NoteIds : \A r \in RotReports :
         (TiltExceeds(r) /\ RotationStep(n, r)) =>
             (sn'[n].rot = Canonical /\ sn'[n].angVel = Zero3)]_vars


\* the committed notes, in the order of their commits
Committed == {i \in NoteIds : notes[i].isDropped}

\* C35: the notes of the scene, the pending note included, have pairwise
\* distinct identifiers after any sequence of spawns and commits, and a note
\* committed later has a larger identifier than every note committed earlier.
C35_IdsDistinctAndIncreasing ==
    /\ \A i, j \in NoteIds : i # j => notes[i].id # notes[j].id
    /\ cursorNote # NoCursor => \A i \in NoteIds : notes[i].id # cursorNote.id
    /\ \A i, j \in Committed : i < j => notes[i].id < notes[j].id

\* two notes have been committed, both spawned within the same second
C35_Witness ==
    /\ Idle
    /\ \E i, j \in Committed :
          /\ i < j
          /\ notes[i].id < notes[j].id
          /\ notes[j].id - notes[i].id < 1000


\* the pointer event e is inside the rectangle rect
Inside(e, rect) ==
    /\ rect.left <= e[1] /\ e[1] <= rect.left + rect.width
    /\ rect.top <= e[2] /\ e[2] <= rect.top + rect.height

\* the step runs a handler that maps the pointer event e: an accepted grab, a
\* move over the mesh of a Dragging note or a move seen by the window-level
\* listener of a Dragging note
Maps(e) ==
    \/ \E n \in NoteIds, outer \in BOOLEAN, cam \in Cameras, delta \in GrabDeltas \cup {NoHit} :
          PointerDown(n, outer, cam, delta, e, MaxGrabs) /\ grabs' = grabs + 1
    \/ \E m \in NoteIds, hit \in MoveHits \cup {NoHit} :
          sn[m].isDragging /\ PointerMoveCanvas(m, hit, e)
    \/ Listening # {} /\ PointerMoveWindow(e)

\* C36: the pointer mapping returns (0, 0) when the canvas rectangle has zero
\* width or zero height, and otherwise ((x - left) / width * 2 - 1,
\* -((y - top) / height * 2) + 1), which is within [-1, 1] x [-1, 1] for
\* every pointer position inside the rectangle.
C36_PointerMapping ==
    [][\A e \in PointerEvents :
         Maps(e) =>
            LET rect == pointer.rect
                m == pointer'.mouse
            IN  IF rect.width = 0 \/ rect.height = 0
                THEN m = <<0, 0>>
                ELSE /\ m[1] = (((e[1] - rect.left) * ONE) \div rect.width) * 2 - ONE
                     /\ m[2] = -((((e[2] - rect.top) * ONE) \div rect.height) * 2) + ONE
                     /\ Inside(e, rect) =>
                           /\ -ONE <= m[1] /\ m[1] <= ONE
                           /\ -ONE <= m[2] /\ m[2] <= ONE]_vars


\* C37: a drag session and a pending note never exist at the same time: no
\* grab is accepted while a pending note exists, and no spawn is accepted
\* while a note is Dragging.
C37_NoDragWithPending ==
    /\ [](cursorNote # NoCursor => Listening = {})
    /\ [][\A n \in NoteIds :
             (cursorNote # NoCursor /\ ~sn[n].isDragging) => ~sn'[n].isDragging]_vars
    /\ [][Listening # {} => ~Spawns]_vars


\* C38: for a committed note that is Dragging, ending the drag through the
\* note's own pointer-up handler (handleDrop) and ending it through the
\* window-level pointer-up listener (handlePointerUp) leave the note with the
\* same mass and the same settled flag.
C38_ReleasePathsAgree ==
    \A n \in Committed :
        sn[n].isDragging =>
            \A r \in DropRandoms :
                LET own == Rerender(notes[n], sn[n], meshPointerUp(sn[n], TRUE, r))
                    win == Rerender(notes[n], sn[n], handlePointerUp(sn[n]))
                IN  /\ own.mass = win.mass
                    /\ own.hasSettled = win.hasSettled


\* C39: in every reachable state the scene-level drag flag is true exactly
\* when some note is Dragging: it is not left true after the last drag ended
\* and is not false while a note is still Dragging, also when one release is
\* delivered to the note's handler and then to the window-level listener.
C39_SceneFlagMatchesDragging ==
    /\ [](sceneDragging <=> (\E n \in NoteIds : sn[n].isDragging))
    /\ [][(bubble.kind = "up" /\ bubble.handled /\ PointerUpWindow(TRUE)) =>
              (~sceneDragging' /\ \A n \in NoteIds : ~sn'[n].isDragging)]_vars

\* a release has been handled by the dragged note's own handler and is about
\* to reach the window-level listener, after an earlier drag had ended
C39_Witness ==
    /\ bubble.kind = "up"
    /\ bubble.handled
    /\ bubble.targets # {}
    /\ ~sceneDragging
    /\ grabs > 1


\* C40: the camera's orbit controls are disabled in every state in which a
\* note is Dragging or a pending note exists, whatever the hover flag is.
C40_OrbitDisabled ==
    \A isHovering \in BOOLEAN :
        ((\E n \in NoteIds : sn[n].isDragging) \/ cursorNote # NoCursor) =>
            ~orbitEnabled(sceneDragging, cursorNote, isHovering)

\* a pending note follows the pointer while no note is Dragging, after a drag
\* has ended
C40_Witness ==
    /\ Idle
    /\ cursorNote # NoCursor
    /\ mousePos # cursorNote.sourcePosition
    /\ ~sceneDragging
    /\ \A n \in NoteIds : ~sn[n].isDragging
    /\ grabs > 0

====
